---- MODULE Spec2Model ----
(***************************************************************************)
(* Model of the shunting-yard calculator of src/main.rs: Tokens::parse,    *)
(* Tokens::shunting, Tokens::solve and their composition Tokens::eval.     *)
(*                                                                         *)
(* A text is a sequence of one-character strings.  An f64 is a pair        *)
(* <<n, d>>: a finite non-zero value is the reduced fraction n/d, d > 0;   *)
(* <<0, 1>> is +0.0, <<0, -1>> is -0.0, <<1, 0>> is +inf, <<-1, 0>> is     *)
(* -inf and <<0, 0>> is NaN.  Finite arithmetic is exact (rounding of the  *)
(* binary format is not modelled); the IEEE-754 rules for zeros,           *)
(* infinities and NaN are.                                                 *)
(***************************************************************************)
EXTENDS Integers, Sequences, FiniteSets, TLC

\* ------------------------------------------------------------------ bounds
\* Longest raw input line drawn by Init of Spec.
MaxText == 5
\* Longest token sequence drawn by InitTokens of SpecTokens.
MaxTokens == 5

\* ----------------------------------------------------------------- f64
PosZero == <<0, 1>>
NegZero == <<0, -1>>
PosInf == <<1, 0>>
NegInf == <<-1, 0>>
NaN == <<0, 0>>

IsNaN(x) == x = NaN
IsInf(x) == x[2] = 0 /\ x[1] # 0
IsZero(x) == x[1] = 0 /\ x[2] # 0
IsNegative(x) == x[1] < 0 \/ x = NegZero

Abs(n) == IF n < 0 THEN -n ELSE n

RECURSIVE Gcd(_, _)
Gcd(a, b) == IF b = 0 THEN a ELSE Gcd(b, a % b)

\* The finite non-zero value n/d (d # 0, n # 0) in reduced form.
Norm(n, d) ==
    LET g == Gcd(Abs(n), Abs(d))
        s == IF d < 0 THEN -1 ELSE 1
    IN  <<(s * n) \div g, (s * d) \div g>>

\* The zero or infinity of the sign of x * y (or x / y).
SignedLike(x, y, pos, neg) == IF IsNegative(x) = IsNegative(y) THEN pos ELSE neg

FNeg(x) ==
    IF IsNaN(x) THEN NaN
    ELSE IF IsZero(x) THEN <<0, -x[2]>>
    ELSE <<-x[1], x[2]>>

FAdd(x, y) ==
    IF IsNaN(x) \/ IsNaN(y) THEN NaN
    ELSE IF IsInf(x) /\ IsInf(y) THEN (IF x = y THEN x ELSE NaN)
    ELSE IF IsInf(x) THEN x
    ELSE IF IsInf(y) THEN y
    ELSE IF IsZero(x) /\ IsZero(y)
         THEN (IF x = NegZero /\ y = NegZero THEN NegZero ELSE PosZero)
    ELSE IF IsZero(x) THEN y
    ELSE IF IsZero(y) THEN x
    ELSE LET n == x[1] * y[2] + y[1] * x[2]
         IN  IF n = 0 THEN PosZero ELSE Norm(n, x[2] * y[2])

FSub(x, y) == FAdd(x, FNeg(y))

FMul(x, y) ==
    IF IsNaN(x) \/ IsNaN(y) THEN NaN
    ELSE IF (IsInf(x) /\ IsZero(y)) \/ (IsZero(x) /\ IsInf(y)) THEN NaN
    ELSE IF IsInf(x) \/ IsInf(y) THEN SignedLike(x, y, PosInf, NegInf)
    ELSE IF IsZero(x) \/ IsZero(y) THEN SignedLike(x, y, PosZero, NegZero)
    ELSE Norm(x[1] * y[1], x[2] * y[2])

FDiv(x, y) ==
    IF IsNaN(x) \/ IsNaN(y) THEN NaN
    ELSE IF (IsInf(x) /\ IsInf(y)) \/ (IsZero(x) /\ IsZero(y)) THEN NaN
    ELSE IF IsInf(x) \/ IsZero(y) THEN SignedLike(x, y, PosInf, NegInf)
    ELSE IF IsInf(y) \/ IsZero(x) THEN SignedLike(x, y, PosZero, NegZero)
    ELSE Norm(x[1] * y[2], x[2] * y[1])

\* ------------------------------------------------------------ Operator
Operators == {"Add", "Sub", "Mul", "Div"}

\* Operator::from_char; "Unreachable" is its unreachable!() arm.
OperatorFromChar(chr) ==
    CASE chr = "+" -> "Add"
      [] chr = "-" -> "Sub"
      [] chr = "*" -> "Mul"
      [] chr = "/" -> "Div"
      [] OTHER -> "Unreachable"

\* Operator::precedence with one level for the four operators.
precedence_flat(oper) ==
    CASE oper \in {"Add", "Sub"} -> 1
      [] oper \in {"Mul", "Div"} -> 1

\* Operator::precedence
precedence(oper) ==
    CASE oper \in {"Add", "Sub"} -> 1
      [] oper \in {"Mul", "Div"} -> 2

\* Operator::call
call(oper, x, y) ==
    CASE oper = "Add" -> FAdd(x, y)
      [] oper = "Sub" -> FSub(x, y)
      [] oper = "Mul" -> FMul(x, y)
      [] oper = "Div" -> FDiv(x, y)

\* --------------------------------------------------------------- Token
Num(float) == [t |-> "Num", o |-> "None", v |-> float]
Oper(oper) == [t |-> "Oper", o |-> oper, v |-> PosZero]
ParenOpen == [t |-> "ParenOpen", o |-> "None", v |-> PosZero]
ParenClose == [t |-> "ParenClose", o |-> "None", v |-> PosZero]
\* What Token::from_char yields where it runs into unreachable!().
Unreachable == [t |-> "Unreachable", o |-> "None", v |-> PosZero]

\* Token::from_char without its arm for ')'.
from_char_noClose(chr) ==
    CASE chr \in {"+", "-", "*", "/"} ->
            (IF OperatorFromChar(chr) = "Unreachable" THEN Unreachable
             ELSE Oper(OperatorFromChar(chr)))
      [] chr = "(" -> ParenOpen
      [] OTHER -> Unreachable

\* Token::from_char
from_char(chr) ==
    CASE chr \in {"+", "-", "*", "/"} ->
            (IF OperatorFromChar(chr) = "Unreachable" THEN Unreachable
             ELSE Oper(OperatorFromChar(chr)))
      [] chr = "(" -> ParenOpen
      [] chr = ")" -> ParenClose
      [] OTHER -> Unreachable

\* Token::is_lower: "true" / "false", or "unreachable" when self is no Oper.
is_lower(self, token) ==
    IF self.t = "Oper"
    THEN IF token.t = "Oper"
         THEN (IF precedence(self.o) < precedence(token.o) THEN "true" ELSE "false")
         ELSE "false"
    ELSE "unreachable"

\* ---------------------------------------------------------------- text
Digits == {"0", "1", "2", "3", "4", "5", "6", "7", "8", "9"}

DigitVal(chr) ==
    CASE chr = "0" -> 0 [] chr = "1" -> 1 [] chr = "2" -> 2 [] chr = "3" -> 3
      [] chr = "4" -> 4 [] chr = "5" -> 5 [] chr = "6" -> 6 [] chr = "7" -> 7
      [] chr = "8" -> 8 [] chr = "9" -> 9

\* char::is_whitespace, on the characters the model draws.
is_whitespace(chr) == chr \in {" ", "\t", "\n"}

\* str::trim: drops leading and trailing whitespace.
RECURSIVE TrimStart(_)
TrimStart(s) ==
    IF s # <<>> /\ is_whitespace(Head(s)) THEN TrimStart(Tail(s)) ELSE s

RECURSIVE TrimEnd(_)
TrimEnd(s) ==
    IF s # <<>> /\ is_whitespace(s[Len(s)]) THEN TrimEnd(SubSeq(s, 1, Len(s) - 1)) ELSE s

trim(s) == TrimEnd(TrimStart(s))

\* The loop of parse_num stopping in front of a second '.'.
RECURSIVE NumRunDots(_, _)
NumRunDots(s, seen) ==
    IF s # <<>> /\ Head(s) \in Digits
    THEN <<Head(s)>> \o NumRunDots(Tail(s), seen)
    ELSE IF s # <<>> /\ Head(s) = "." /\ ~seen
    THEN <<Head(s)>> \o NumRunDots(Tail(s), TRUE)
    ELSE <<>>

NumRun_oneDot(s) == NumRunDots(s, FALSE)

\* The loop of Tokens::parse_num: the longest prefix of digits and '.'.
RECURSIVE NumRun(_)
NumRun(s) ==
    IF s # <<>> /\ Head(s) \in Digits \cup {"."}
    THEN <<Head(s)>> \o NumRun(Tail(s))
    ELSE <<>>

RECURSIVE Pow10(_)
Pow10(k) == IF k = 0 THEN 1 ELSE 10 * Pow10(k - 1)

\* The digits of buf read as a decimal integer, '.' skipped.
RECURSIVE DigitsValue(_, _)
DigitsValue(buf, acc) ==
    IF buf = <<>> THEN acc
    ELSE IF Head(buf) = "." THEN DigitsValue(Tail(buf), acc)
    ELSE DigitsValue(Tail(buf), 10 * acc + DigitVal(Head(buf)))

\* The number of characters of buf after its first '.', 0 if it has none.
RECURSIVE FracLen(_)
FracLen(buf) ==
    IF buf = <<>> THEN 0
    ELSE IF Head(buf) = "." THEN Len(buf) - 1
    ELSE FracLen(Tail(buf))

\* buf.parse::<f64>() for a buffer of digits and '.': a decimal literal has
\* at most one '.' and at least one digit ("1.", ".5" and "1" parse; "",
\* "." and "1.2.3" do not).
ParseF64(buf) ==
    LET dots == Cardinality({k \in 1..Len(buf) : buf[k] = "."})
        digs == Cardinality({k \in 1..Len(buf) : buf[k] \in Digits})
        n == DigitsValue(buf, 0)
    IN  IF dots > 1 \/ digs = 0 THEN [ok |-> FALSE, val |-> NaN]
        ELSE IF n = 0 THEN [ok |-> TRUE, val |-> PosZero]
        ELSE [ok |-> TRUE, val |-> Norm(n, Pow10(FracLen(buf)))]

\* Tokens::parse_num: the buffer it consumed and the outcome of its parse.
parse_num(s) ==
    LET buf == NumRun(s)
    IN  [buf |-> buf, ok |-> ParseF64(buf).ok, val |-> ParseF64(buf).val]

\* ------------------------------------------------------------- results
Pending == [kind |-> "Pending", val |-> PosZero, str |-> <<>>, toks |-> <<>>]
Ok(float) == [kind |-> "Ok", val |-> float, str |-> <<>>, toks |-> <<>>]
ParseNum(buf) == [kind |-> "ParseNum", val |-> PosZero, str |-> buf, toks |-> <<>>]
BadChar(chr) == [kind |-> "BadChar", val |-> PosZero, str |-> <<chr>>, toks |-> <<>>]
UnclosedParens(ts) == [kind |-> "UnclosedParens", val |-> PosZero, str |-> <<>>, toks |-> ts]
UnmatchedParens(ts) == [kind |-> "UnmatchedParens", val |-> PosZero, str |-> <<>>, toks |-> ts]
NotEnoughTokens(ts) == [kind |-> "NotEnoughTokens", val |-> PosZero, str |-> <<>>, toks |-> ts]
\* The process aborted in an unreachable!() or on an unwrap() of None.
Panic == [kind |-> "Panic", val |-> PosZero, str |-> <<>>, toks |-> <<>>]

\* --------------------------------------------------------------- state
VARIABLES
    input,      \* the line handed to Tokens::eval
    pc,         \* the stage running: "parse", "shunting", "solve", "done"
    chars,      \* parse: what the peekable cursor has not consumed yet
    tokens,     \* parse: the Vec being built; shunting: self.0
    i,          \* shunting, solve: position of the for loop in self.0
    op_stack,   \* shunting: op_stack
    queue,      \* shunting: queue
    postfix,    \* solve: self.0, the Tokens that shunting returned
    stack,      \* solve: stack
    result      \* what Tokens::eval returned, Pending until it has

vars == <<input, pc, chars, tokens, i, op_stack, queue, postfix, stack, result>>

\* Tokens::eval returns (or aborts with) r.
Return(r) == pc' = "done" /\ result' = r

\* ---------------------------------------------------------------- parse
\* The skipping arm of parse without its guard: `Some(chr) => { next }`.
SkipArm_unguarded(chr) == TRUE

\* The arm `Some(chr @ '=') | Some(chr) if chr.is_whitespace()` of the match
\* in Tokens::parse: a match guard applies to every alternative of its arm,
\* so the arm is taken when one of the two patterns matches and the guard
\* holds of the character it bound.
SkipArm(chr) ==
    LET first == chr = "="      \* Some(chr @ '=')
        second == TRUE          \* Some(chr)
    IN  IF first /\ is_whitespace(chr) THEN TRUE
        ELSE second /\ is_whitespace(chr)

\* One iteration of the loop of Tokens::parse (one match on chars.peek()).
ParseStep ==
    /\ pc = "parse"
    /\ chars # <<>>
    /\ LET chr == Head(chars) IN
       IF chr \in Digits \cup {"."}
       THEN LET r == parse_num(chars) IN
            /\ chars' = SubSeq(chars, Len(r.buf) + 1, Len(chars))
            /\ IF r.ok
               THEN /\ tokens' = Append(tokens, Num(r.val))
                    /\ UNCHANGED <<pc, result>>
               ELSE /\ Return(ParseNum(r.buf))
                    /\ UNCHANGED tokens
       ELSE IF chr \in {"+", "-", "*", "/", "(", ")"}
       THEN /\ chars' = Tail(chars)
            /\ IF from_char(chr) = Unreachable
               THEN /\ Return(Panic)
                    /\ UNCHANGED tokens
               ELSE /\ tokens' = Append(tokens, from_char(chr))
                    /\ UNCHANGED <<pc, result>>
       ELSE IF SkipArm(chr)
       THEN /\ chars' = Tail(chars)
            /\ UNCHANGED <<pc, tokens, result>>
       ELSE /\ Return(BadChar(chr))
            /\ UNCHANGED <<chars, tokens>>
    /\ UNCHANGED <<input, i, op_stack, queue, postfix, stack>>

\* chars.peek() is None: parse returns Ok(Tokens(tokens)) and eval calls
\* shunting on it, which starts with an empty op_stack and queue.
ParseReturn ==
    /\ pc = "parse"
    /\ chars = <<>>
    /\ pc' = "shunting"
    /\ i' = 1
    /\ op_stack' = <<>>
    /\ queue' = <<>>
    /\ UNCHANGED <<input, chars, tokens, postfix, stack, result>>

\* ------------------------------------------------------------- shunting
Top(st) == st[Len(st)]
Pop(st) == SubSeq(st, 1, Len(st) - 1)

\* The ParenClose loop without its test for ParenOpen: it empties op_stack.
RECURSIVE PopUntilOpen_all(_, _)
PopUntilOpen_all(st, q) ==
    IF st # <<>>
    THEN PopUntilOpen_all(Pop(st), Append(q, Top(st)))
    ELSE [st |-> st, q |-> q]

\* The ParenClose loop popping without the push to the queue.
RECURSIVE PopUntilOpen_drop(_, _)
PopUntilOpen_drop(st, q) ==
    IF st # <<>> /\ Top(st).t # "ParenOpen"
    THEN PopUntilOpen_drop(Pop(st), q)
    ELSE [st |-> st, q |-> q]

\* ParenClose arm, lines 79-82: move entries to the queue while the top of
\* op_stack is not ParenOpen.
RECURSIVE PopUntilOpen(_, _)
PopUntilOpen(st, q) ==
    IF st # <<>> /\ Top(st).t # "ParenOpen"
    THEN PopUntilOpen(Pop(st), Append(q, Top(st)))
    ELSE [st |-> st, q |-> q]

\* Oper arm, lines 88-91: move entries to the queue while token.is_lower(top).
RECURSIVE PopWhileLower(_, _, _)
PopWhileLower(token, st, q) ==
    IF st = <<>> THEN [st |-> st, q |-> q, panic |-> FALSE]
    ELSE IF is_lower(token, Top(st)) = "unreachable" THEN [st |-> st, q |-> q, panic |-> TRUE]
    ELSE IF is_lower(token, Top(st)) = "true"
    THEN PopWhileLower(token, Pop(st), Append(q, Top(st)))
    ELSE [st |-> st, q |-> q, panic |-> FALSE]

\* One iteration of `for token in &self.0` of Tokens::shunting.
ShuntingStep ==
    /\ pc = "shunting"
    /\ i <= Len(tokens)
    /\ LET token == tokens[i] IN
       IF token.t = "Num"
       THEN /\ queue' = Append(queue, token)
            /\ i' = i + 1
            /\ UNCHANGED <<op_stack, pc, result>>
       ELSE IF token.t = "ParenOpen"
       THEN /\ op_stack' = Append(op_stack, token)
            /\ i' = i + 1
            /\ UNCHANGED <<queue, pc, result>>
       ELSE IF token.t = "ParenClose"
       THEN LET r == PopUntilOpen(op_stack, queue) IN
            /\ queue' = r.q
            /\ IF r.st = <<>>
               THEN /\ Return(UnmatchedParens(tokens))
                    /\ UNCHANGED <<op_stack, i>>
               ELSE /\ op_stack' = Pop(r.st)
                    /\ i' = i + 1
                    /\ UNCHANGED <<pc, result>>
       ELSE LET r == PopWhileLower(token, op_stack, queue) IN
            /\ queue' = r.q
            /\ IF r.panic
               THEN /\ Return(Panic)
                    /\ UNCHANGED <<op_stack, i>>
               ELSE /\ op_stack' = Append(r.st, token)
                    /\ i' = i + 1
                    /\ UNCHANGED <<pc, result>>
    /\ UNCHANGED <<input, chars, tokens, postfix, stack>>

\* One iteration of `while let Some(elem) = op_stack.pop()`, lines 96-102.
ShuntingDrain ==
    /\ pc = "shunting"
    /\ i > Len(tokens)
    /\ op_stack # <<>>
    /\ op_stack' = Pop(op_stack)
    /\ LET elem == Top(op_stack) IN
       IF elem.t = "ParenOpen"
       THEN /\ Return(UnclosedParens(tokens))
            /\ UNCHANGED queue
       ELSE IF elem.t = "Oper"
       THEN /\ queue' = Append(queue, elem)
            /\ UNCHANGED <<pc, result>>
       ELSE /\ Return(Panic)
            /\ UNCHANGED queue
    /\ UNCHANGED <<input, chars, tokens, i, postfix, stack>>

\* op_stack is drained: shunting returns Ok(Tokens(queue)) and eval calls
\* solve on it, which starts with an empty stack.
ShuntingReturn ==
    /\ pc = "shunting"
    /\ i > Len(tokens)
    /\ op_stack = <<>>
    /\ pc' = "solve"
    /\ postfix' = queue
    /\ i' = 1
    /\ stack' = <<>>
    /\ UNCHANGED <<input, chars, tokens, op_stack, queue, result>>

\* ---------------------------------------------------------------- solve
\* One iteration of `for token in &self.0` of Tokens::solve.
SolveStep ==
    /\ pc = "solve"
    /\ i <= Len(postfix)
    /\ LET token == postfix[i] IN
       IF token.t = "Num"
       THEN /\ stack' = Append(stack, token.v)
            /\ i' = i + 1
            /\ UNCHANGED <<pc, result>>
       ELSE IF token.t = "Oper"
       THEN IF Len(stack) < 2
            THEN /\ Return(NotEnoughTokens(postfix))
                 /\ UNCHANGED <<stack, i>>
            ELSE LET y == Top(stack)
                     x == Top(Pop(stack))
                 IN  /\ stack' = Append(Pop(Pop(stack)), call(token.o, x, y))
                     /\ i' = i + 1
                     /\ UNCHANGED <<pc, result>>
       ELSE /\ Return(Panic)
            /\ UNCHANGED <<stack, i>>
    /\ UNCHANGED <<input, chars, tokens, op_stack, queue, postfix>>

\* The final match of solve accepting any non-empty stack.
SolveReturn_nonEmpty ==
    /\ pc = "solve"
    /\ i > Len(postfix)
    /\ IF Len(stack) >= 1
       THEN /\ Return(Ok(Top(stack)))
            /\ stack' = Pop(stack)
       ELSE /\ Return(NotEnoughTokens(postfix))
            /\ UNCHANGED stack
    /\ UNCHANGED <<input, chars, tokens, i, op_stack, queue, postfix>>

\* `match stack.len()`, lines 121-124.
SolveReturn ==
    /\ pc = "solve"
    /\ i > Len(postfix)
    /\ IF Len(stack) = 1
       THEN /\ Return(Ok(Top(stack)))
            /\ stack' = Pop(stack)
       ELSE /\ Return(NotEnoughTokens(postfix))
            /\ UNCHANGED stack
    /\ UNCHANGED <<input, chars, tokens, i, op_stack, queue, postfix>>

\* --------------------------------------------------------------- inputs
\* The characters the input lines of Spec are drawn from: digits, '.', an
\* operator of each precedence, the parentheses, '=', whitespace and a
\* character outside the accepted set.
Alphabet == {"1", "2", ".", "+", "*", "(", ")", "=", " ", "^"}

SeqsUpTo(S, n) == UNION {[1..k -> S] : k \in 0..n}

\* Input lines named by the specification of the repository, and a few more.
Text_8m3m2 == <<"8", "-", "3", "-", "2">>
Text_2p3t4 == <<"2", "+", "3", "*", "4">>
Text_P2p3Pt4 == <<"(", "2", "+", "3", ")", "*", "4">>
Text_1p2eq == <<"1", " ", "+", " ", "2", " ", "=">>
Text_1p2 == <<"1", "+", "2">>
Text_1sp2 == <<"1", " ", "2">>
Text_P1p2 == <<"(", "1", "+", "2">>
Text_1p2P == <<"1", "+", "2", ")">>
Text_1d2d3 == <<"1", ".", "2", ".", "3">>
Text_2c3 == <<"2", "^", "3">>
Text_plus == <<"+">>
Text_Pplus == <<"(", "+">>
Text_1div0 == <<"1", "/", "0">>
Text_8d4d2 == <<"8", "/", "4", "/", "2">>
Text_trim == <<" ", "\t", "1", ".", "5", "*", "2", "0", "\n">>
Text_1p2sp == <<"1", " ", "+", "\t", "2">>
Text_bad1 == <<")", "1", ".", ".", "+", "^">>
Text_bad2 == <<"(", "+", "^", "1", ".", ".">>

TextExamples ==
    {Text_8m3m2, Text_2p3t4, Text_P2p3Pt4, Text_1p2eq, Text_1p2, Text_1sp2,
     Text_P1p2, Text_1p2P, Text_1d2d3, Text_2c3, Text_plus, Text_Pplus,
     Text_1div0, Text_8d4d2, Text_trim, Text_1p2sp, Text_bad1, Text_bad2}

TextInputs == SeqsUpTo(Alphabet, MaxText) \cup TextExamples

\* The tokens the token sequences of SpecTokens are drawn from.
TokNums == {Num(<<0, 1>>), Num(<<2, 1>>), Num(<<3, 1>>)}
TokOpers == {Oper(o) : o \in Operators}
TokAlphabet == TokNums \cup TokOpers \cup {ParenOpen, ParenClose}

N(k) == Num(<<k, 1>>)

Toks_8m3m2 == <<N(8), Oper("Sub"), N(3), Oper("Sub"), N(2)>>
Toks_2p3t4 == <<N(2), Oper("Add"), N(3), Oper("Mul"), N(4)>>
Toks_P2p3Pt4 == <<ParenOpen, N(2), Oper("Add"), N(3), ParenClose, Oper("Mul"), N(4)>>
Toks_P1p2 == <<ParenOpen, N(1), Oper("Add"), N(2)>>
Toks_1p2P == <<N(1), Oper("Add"), N(2), ParenClose>>
Toks_plus == <<Oper("Add")>>
Toks_1sp2 == <<N(1), N(2)>>

TokExamples ==
    {Toks_8m3m2, Toks_2p3t4, Toks_P2p3Pt4, Toks_P1p2, Toks_1p2P, Toks_plus, Toks_1sp2}

\* a op1 b op2 c, (a op1 b) op2 c and a op1 (b op2 c), over TokNums.
Flat3 ==
    {<<a, p, b, q, c>> : a \in TokNums, p \in TokOpers, b \in TokNums,
                         q \in TokOpers, c \in TokNums}
ParenLeft ==
    {<<ParenOpen, e[1], e[2], e[3], ParenClose, e[4], e[5]>> : e \in Flat3}
ParenRight ==
    {<<e[1], e[2], ParenOpen, e[3], e[4], e[5], ParenClose>> : e \in Flat3}

TokenInputs ==
    SeqsUpTo(TokAlphabet, MaxTokens) \cup Flat3 \cup ParenLeft \cup ParenRight
        \cup TokExamples

\* A line that Tokens::parse turns into ts (literals of one digit).
RECURSIVE Unparse(_)
Unparse(ts) ==
    IF ts = <<>> THEN <<>>
    ELSE LET tok == Head(ts)
             chr == CASE tok.t = "Num" ->
                            CHOOSE c \in Digits : DigitVal(c) = tok.v[1]
                      [] tok.t = "Oper" ->
                            CHOOSE c \in {"+", "-", "*", "/"} : OperatorFromChar(c) = tok.o
                      [] tok.t = "ParenOpen" -> "("
                      [] tok.t = "ParenClose" -> ")"
         IN  IF Tail(ts) = <<>> THEN <<chr>> ELSE <<chr, " ">> \o Unparse(Tail(ts))

\* ------------------------------------------------------- specifications
\* Tokens::eval(input): parse is entered on input.trim() with no token yet.
Init ==
    /\ input \in TextInputs
    /\ pc = "parse"
    /\ chars = trim(input)
    /\ tokens = <<>>
    /\ i = 1
    /\ op_stack = <<>>
    /\ queue = <<>>
    /\ postfix = <<>>
    /\ stack = <<>>
    /\ result = Pending

Next ==
    \/ ParseStep
    \/ ParseReturn
    \/ ShuntingStep
    \/ ShuntingDrain
    \/ ShuntingReturn
    \/ SolveStep
    \/ SolveReturn

Spec == Init /\ [][Next]_vars

\* Tokens::eval at the call of shunting: parse has returned Ok(Tokens(tokens)).
InitTokens ==
    /\ tokens \in TokenInputs
    /\ input = Unparse(tokens)
    /\ pc = "shunting"
    /\ chars = <<>>
    /\ i = 1
    /\ op_stack = <<>>
    /\ queue = <<>>
    /\ postfix = <<>>
    /\ stack = <<>>
    /\ result = Pending

NextTokens ==
    \/ ShuntingStep
    \/ ShuntingDrain
    \/ ShuntingReturn
    \/ SolveStep
    \/ SolveReturn

SpecTokens == InitTokens /\ [][NextTokens]_vars

\* ===================================================== reference notions
\* A reference evaluator of infix token sequences, by recursive descent:
\*   expr ::= term (('+' | '-') term)*      term ::= factor (('*' | '/') factor)*
\*   factor ::= Num | '(' expr ')'
\* with the operators of one level applied left to right.  Each operator
\* yields [ok, val, next]: whether a phrase starts at position p of ts, its
\* value, and the position after it.
RefFail == [ok |-> FALSE, val |-> NaN, next |-> 0]

RECURSIVE RefExpr(_, _)
RECURSIVE RefExprRest(_, _, _)
RECURSIVE RefTerm(_, _)
RECURSIVE RefTermRest(_, _, _)
RECURSIVE RefFactor(_, _)

RefFactor(ts, p) ==
    IF p > Len(ts) THEN RefFail
    ELSE IF ts[p].t = "Num" THEN [ok |-> TRUE, val |-> ts[p].v, next |-> p + 1]
    ELSE IF ts[p].t = "ParenOpen"
    THEN LET e == RefExpr(ts, p + 1)
         IN  IF e.ok /\ e.next <= Len(ts) /\ ts[e.next].t = "ParenClose"
             THEN [ok |-> TRUE, val |-> e.val, next |-> e.next + 1]
             ELSE RefFail
    ELSE RefFail

RefTermRest(ts, acc, p) ==
    IF p <= Len(ts) /\ ts[p].t = "Oper" /\ ts[p].o \in {"Mul", "Div"}
    THEN LET f == RefFactor(ts, p + 1)
         IN  IF f.ok THEN RefTermRest(ts, call(ts[p].o, acc, f.val), f.next)
             ELSE RefFail
    ELSE [ok |-> TRUE, val |-> acc, next |-> p]

RefTerm(ts, p) ==
    LET f == RefFactor(ts, p)
    IN  IF f.ok THEN RefTermRest(ts, f.val, f.next) ELSE RefFail

RefExprRest(ts, acc, p) ==
    IF p <= Len(ts) /\ ts[p].t = "Oper" /\ ts[p].o \in {"Add", "Sub"}
    THEN LET f == RefTerm(ts, p + 1)
         IN  IF f.ok THEN RefExprRest(ts, call(ts[p].o, acc, f.val), f.next)
             ELSE RefFail
    ELSE [ok |-> TRUE, val |-> acc, next |-> p]

RefExpr(ts, p) ==
    LET f == RefTerm(ts, p)
    IN  IF f.ok THEN RefExprRest(ts, f.val, f.next) ELSE RefFail

\* ts is a well-formed infix expression; RefValue(ts) is its value.
WellFormed(ts) == RefExpr(ts, 1).ok /\ RefExpr(ts, 1).next = Len(ts) + 1
RefValue(ts) == RefExpr(ts, 1).val

\* The number of values a postfix scan of q holds after its first k tokens,
\* -1 once an operator has met fewer than two of them (parentheses count as
\* an underflow).
RECURSIVE PostfixDepth(_, _)
PostfixDepth(q, k) ==
    IF k = 0 THEN 0
    ELSE LET d == PostfixDepth(q, k - 1)
         IN  IF d < 0 THEN -1
             ELSE IF q[k].t = "Num" THEN d + 1
             ELSE IF q[k].t = "Oper" /\ d >= 2 THEN d - 1
             ELSE -1

ValidPostfix(q) == PostfixDepth(q, Len(q)) = 1
NoParens(q) == \A k \in 1..Len(q) : q[k].t \in {"Num", "Oper"}

\* The value of a valid postfix sequence: the operands of an operator are the
\* two values before it, the left one first.
RECURSIVE RefPostfix(_, _)
RefPostfix(q, k) ==
    IF k = 0 THEN <<>>
    ELSE LET st == RefPostfix(q, k - 1)
         IN  IF q[k].t = "Num" THEN Append(st, q[k].v)
             ELSE SubSeq(st, 1, Len(st) - 2)
                      \o <<call(q[k].o, st[Len(st) - 1], st[Len(st)])>>

\* Parentheses of the first k tokens of ts: opens minus closes.
ParenBalance(ts, k) ==
    Cardinality({j \in 1..k : ts[j].t = "ParenOpen"})
        - Cardinality({j \in 1..k : ts[j].t = "ParenClose"})

SomePrefixCloses(ts) == \E k \in 1..Len(ts) : ParenBalance(ts, k) < 0

\* Shunting has returned Ok: eval is in solve, or solve has returned.
ShuntingOk == pc = "solve" \/ (pc = "done" /\ result.kind \in {"Ok", "NotEnoughTokens"})

\* ================================================================ claims
\* C1: for every well-formed infix expression, eval returns Ok with the
\* value of the reference evaluator (* and / above + and -, operators of one
\* level applied left to right).
C1_MatchesReference ==
    (pc = "done" /\ WellFormed(tokens)) => result = Ok(RefValue(tokens))

\* C2: an incoming operator pops every operator of greater or equal
\* precedence off op_stack before it is pushed, so no operator ever lies on
\* op_stack directly above an operator of greater or equal precedence, and
\* 8-3-2 evaluates to 3.
C2_EqualPrecedencePops ==
    /\ pc = "shunting" =>
          \A k \in 1..(Len(op_stack) - 1) :
              (op_stack[k].t = "Oper" /\ op_stack[k + 1].t = "Oper")
                  => (op_stack[k].o \in {"Add", "Sub"} /\ op_stack[k + 1].o \in {"Mul", "Div"})
    /\ (pc = "done" /\ tokens = Toks_8m3m2) => result = Ok(<<3, 1>>)

\* C4: in a op1 b op2 c with operators of different levels the * or / is
\* applied first, whichever comes first; a parenthesised sub-expression is
\* evaluated as a unit; 2+3*4 = 14 and (2+3)*4 = 20.
IsFlat3(ts) ==
    /\ Len(ts) = 5
    /\ ts[1].t = "Num" /\ ts[2].t = "Oper" /\ ts[3].t = "Num"
    /\ ts[4].t = "Oper" /\ ts[5].t = "Num"

IsParenLeft(ts) ==
    /\ Len(ts) = 7
    /\ ts[1].t = "ParenOpen" /\ ts[5].t = "ParenClose"
    /\ IsFlat3(<<ts[2], ts[3], ts[4], ts[6], ts[7]>>)

IsParenRight(ts) ==
    /\ Len(ts) = 7
    /\ ts[3].t = "ParenOpen" /\ ts[7].t = "ParenClose"
    /\ IsFlat3(<<ts[1], ts[2], ts[4], ts[5], ts[6]>>)

LeftFirst(a, p, b, q, c) == call(q.o, call(p.o, a.v, b.v), c.v)
RightFirst(a, p, b, q, c) == call(p.o, a.v, call(q.o, b.v, c.v))

\* * and / bind tighter than + and -.
Tight(o) == o \in {"Mul", "Div"}

C4_PrecedenceAndParens ==
    pc = "done" =>
        /\ (IsFlat3(tokens) /\ Tight(tokens[2].o) /\ ~Tight(tokens[4].o))
              => result = Ok(LeftFirst(tokens[1], tokens[2], tokens[3], tokens[4], tokens[5]))
        /\ (IsFlat3(tokens) /\ ~Tight(tokens[2].o) /\ Tight(tokens[4].o))
              => result = Ok(RightFirst(tokens[1], tokens[2], tokens[3], tokens[4], tokens[5]))
        /\ IsParenLeft(tokens)
              => result = Ok(LeftFirst(tokens[2], tokens[3], tokens[4], tokens[6], tokens[7]))
        /\ IsParenRight(tokens)
              => result = Ok(RightFirst(tokens[1], tokens[2], tokens[4], tokens[5], tokens[6]))
        /\ tokens = Toks_2p3t4 => result = Ok(<<14, 1>>)
        /\ tokens = Toks_P2p3Pt4 => result = Ok(<<20, 1>>)

C4_Witness ==
    pc = "done" /\ tokens = Toks_P2p3Pt4 /\ result = Ok(<<20, 1>>)

\* C5: shunting fails with UnmatchedParens exactly when some prefix of its
\* input has more ParenClose than ParenOpen; otherwise with UnclosedParens
\* exactly when the whole input has more ParenOpen than ParenClose; otherwise
\* it returns Ok.  The error carries the input sequence, unchanged.
C5_ParenErrors ==
    pc \in {"solve", "done"} =>
        /\ Unparse(tokens) = input
        /\ IF SomePrefixCloses(tokens)
           THEN pc = "done" /\ result = UnmatchedParens(tokens)
           ELSE IF ParenBalance(tokens, Len(tokens)) > 0
           THEN pc = "done" /\ result = UnclosedParens(tokens)
           ELSE ShuntingOk

C5_Witness ==
    pc = "done" /\ tokens = Toks_1p2P /\ result = UnmatchedParens(Toks_1p2P)

\* C6 as claimed: whenever shunting returns Ok, the sequence it returns has
\* no parenthesis and is in valid postfix order.
C6_AlwaysValidPostfix ==
    pc = "solve" => (NoParens(postfix) /\ ValidPostfix(postfix))

\* C6 as amended: whenever shunting returns Ok, the sequence it returns has
\* no parenthesis; it is in valid postfix order when the input is a
\* well-formed infix expression.
C6_NoParensValidIfWellFormed ==
    pc = "solve" =>
        /\ postfix = queue
        /\ NoParens(postfix)
        /\ WellFormed(tokens) => ValidPostfix(postfix)

C6_Witness ==
    /\ pc = "solve"
    /\ tokens = Toks_P2p3Pt4
    /\ postfix = <<N(2), N(3), Oper("Add"), N(4), Oper("Mul")>>

\* C8: solve fails with NotEnoughTokens, carrying the postfix sequence it was
\* given, exactly when an operator meets fewer than two values or the stack
\* does not hold exactly one value at the end; otherwise it returns the one
\* remaining value.  "+" and "1 2" both fail with NotEnoughTokens.
C8_SolveOutcome ==
    (pc = "done" /\ result.kind \notin {"UnmatchedParens", "UnclosedParens"}) =>
        /\ IF ValidPostfix(postfix)
           THEN result = Ok(RefPostfix(postfix, Len(postfix))[1])
           ELSE result = NotEnoughTokens(postfix)
        /\ tokens \in {<<>>, Toks_plus, Toks_1sp2} => result = NotEnoughTokens(tokens)

C8_Witness ==
    pc = "done" /\ tokens = Toks_1sp2 /\ result = NotEnoughTokens(Toks_1sp2)

\* C3: parse consumes every '=' and every whitespace character without
\* emitting a token and without failing: eval never fails with BadChar on
\* one of them, and "1 + 2 =" evaluates to 3 as "1+2" does.
C3_SkipsEqualsAndWhitespace ==
    /\ result.kind = "BadChar" => ~(result.str[1] = "=" \/ is_whitespace(result.str[1]))
    /\ (pc = "done" /\ input \in {Text_1p2eq, Text_1p2}) => result = Ok(<<3, 1>>)

\* C7: eval never aborts and ends by returning: no step reaches an
\* unreachable!() arm, every step brings eval nearer to its return (a later
\* stage, or less left to do in the same stage), and what is returned is Ok
\* or one of the five errors.
Returned ==
    {"Ok", "ParseNum", "BadChar", "UnclosedParens", "UnmatchedParens", "NotEnoughTokens"}

\* The stages eval still has to leave, and what is left of the running one.
StagesLeft ==
    CASE pc = "parse" -> 3 [] pc = "shunting" -> 2 [] pc = "solve" -> 1 [] pc = "done" -> 0

WorkLeft ==
    CASE pc = "parse" -> Len(chars)
      [] pc = "shunting" -> 2 * (Len(tokens) + 1 - i) + Len(op_stack)
      [] pc = "solve" -> Len(postfix) + 1 - i
      [] pc = "done" -> 0

C7_NeverAborts ==
    [][/\ result'.kind # "Panic"
       /\ StagesLeft' < StagesLeft \/ (StagesLeft' = StagesLeft /\ WorkLeft' < WorkLeft)
       /\ WorkLeft' >= 0
       /\ pc' = "done" => result'.kind \in Returned
       /\ pc' # "done" => result' = Pending
       /\ \A k \in 1..Len(tokens') : tokens'[k].t \in {"Num", "Oper", "ParenOpen", "ParenClose"}
       /\ \A k \in 1..Len(op_stack') : op_stack'[k].t \in {"Oper", "ParenOpen"}
       /\ pc' = "solve" => NoParens(postfix')
      ]_vars

C7_Witness ==
    /\ pc = "done"
    /\ input = <<"(", "1", "+", "2", ")">>
    /\ result = Ok(<<3, 1>>)

\* C9: at a digit or '.', parse consumes the maximal run of digits and '.'
\* (never empty) and emits exactly one Num for it when the run has at most
\* one '.' and at least one digit; otherwise eval fails with ParseNum
\* carrying the whole run.  "1.2.3" fails with ParseNum("1.2.3").
IsNumChar(chr) == chr \in Digits \cup {"."}

\* The length of the maximal run of digits and '.' that s starts with.
MaxRunLen(s) ==
    CHOOSE k \in 0..Len(s) :
        /\ \A j \in 1..k : IsNumChar(s[j])
        /\ k < Len(s) => ~IsNumChar(s[k + 1])

ValidLiteral(run) ==
    /\ Cardinality({k \in 1..Len(run) : run[k] = "."}) <= 1
    /\ \E k \in 1..Len(run) : run[k] \in Digits

C9_NumberRuns ==
    [][(pc = "parse" /\ chars # <<>> /\ IsNumChar(Head(chars))) =>
          LET n == MaxRunLen(chars)
              run == SubSeq(chars, 1, n)
          IN  /\ n >= 1
              /\ chars' = SubSeq(chars, n + 1, Len(chars))
              /\ IF ValidLiteral(run)
                 THEN /\ pc' = "parse"
                      /\ Len(tokens') = Len(tokens) + 1
                      /\ SubSeq(tokens', 1, Len(tokens)) = tokens
                      /\ tokens'[Len(tokens')].t = "Num"
                      /\ run = <<"1", ".", "2">> => tokens'[Len(tokens')].v = <<6, 5>>
                 ELSE /\ pc' = "done"
                      /\ result' = ParseNum(run)
                      /\ tokens' = tokens
              /\ input = Text_1d2d3 => result' = ParseNum(Text_1d2d3)
      ]_vars

C9_Witness ==
    pc = "done" /\ input = Text_1d2d3 /\ result = ParseNum(Text_1d2d3)

\* C10: eval returns the error of the earliest failing stage and runs no
\* later stage: a line with an unsupported character or a malformed literal
\* fails with BadChar or ParseNum whatever its parentheses and operators
\* are, and shunting and solve have not run; a parenthesis error is returned
\* in preference to NotEnoughTokens, and solve has not run.
Accepted == Digits \cup {".", "+", "-", "*", "/", "(", ")", "="}

\* s has a character outside the accepted set, or a maximal run of digits
\* and '.' that is no literal.
HasLexError(s) ==
    \/ \E k \in 1..Len(s) : s[k] \notin Accepted /\ ~is_whitespace(s[k])
    \/ \E k \in 1..Len(s) :
          /\ IsNumChar(s[k])
          /\ k > 1 => ~IsNumChar(s[k - 1])
          /\ ~ValidLiteral(SubSeq(s, k, k + MaxRunLen(SubSeq(s, k, Len(s))) - 1))

C10_EarliestStageError ==
    pc = "done" =>
        /\ HasLexError(input) => result.kind \in {"ParseNum", "BadChar"}
        /\ result.kind \in {"ParseNum", "BadChar"} =>
              (op_stack = <<>> /\ queue = <<>> /\ postfix = <<>> /\ stack = <<>>)
        /\ result.kind \in {"UnclosedParens", "UnmatchedParens"} =>
              (postfix = <<>> /\ stack = <<>>)
        /\ result.kind \in {"Ok", "NotEnoughTokens"} =>
              (~SomePrefixCloses(tokens) /\ ParenBalance(tokens, Len(tokens)) = 0)
        /\ input = Text_2c3 => result = BadChar("^")
        /\ input = Text_Pplus => result.kind = "UnclosedParens"

C10_Witness ==
    /\ pc = "done"
    /\ input = Text_bad1
    /\ result = ParseNum(<<"1", ".", ".">>)

====
